---- MODULE Spec2Model ----
(***************************************************************************)
(* Event Horizon: the durable sequential workflow engine of                *)
(* src/src/core/engine.ts, with the creation paths of src/src/server.ts,   *)
(* src/src/dynamic_workflow.ts and the seeding scripts.                    *)
(*                                                                         *)
(* The store (MongoDB) is the pair wfs / steps.  A step's _id is its index *)
(* in steps: ids are handed out in insertion order.  Every engine instance *)
(* is a process with a program counter; each action is one store operation *)
(* of the code together with the synchronous code around it, so that a     *)
(* process exit or another instance can fall between any two awaits.       *)
(* Time is the wall clock in milliseconds, sampled every TickMs.           *)
(***************************************************************************)
EXTENDS Integers, Sequences, FiniteSets, TLC

VARIABLES
    now,        \* wall clock, ms
    wfs,        \* Workflow collection: sequence of workflow documents
    steps,      \* Step collection: sequence of step documents, index = _id
    pc,         \* per engine instance: position in start()/loop()/executeStep()
    cur,        \* per engine instance: _id of the step document it holds (0: none)
    nxt,        \* per engine instance: the nextStep document it holds in memory
    stuck,      \* per engine instance: stuckSteps still to be saved by recoverState
    wfctx,      \* per engine instance: workflow.context of the workflow document
                \* it holds in memory, patched and not yet saved
    kills,      \* number of forced process kills so far
    doneAt,     \* history: time each step that has a chain successor was
                \* first persisted COMPLETED
    isRunning,  \* per engine instance: the isRunning flag its loop tests
    connected,  \* per engine instance: mongoose.connection is open
    keepDetail  \* whether the behaviour follows the logs arrays line by line
                \* and the outputs of the steps (fixed at the start)

vars == <<now, wfs, steps, pc, cur, nxt, stuck, wfctx, kills, doneAt,
          isRunning, connected, keepDetail>>

\* ------------------------------------------------------------------ bounds

MaxTicks == 1
MaxKills == 1
MaxSteps == 3

\* the number of lines of a step's logs array that the model keeps
MaxLogs == 12

\* ------------------------------------------------------- program constants

Engines == {"e1", "e2"}

NoTime == 0 - 1
NaN == 0 - 1

\* ---------------------------------------------------------------- strings
\* A step name is a sequence of one-character strings.

RECURSIVE SetMin(_)
SetMin(S) ==
    LET x == CHOOSE y \in S : TRUE
    IN  IF S = {x} THEN x
        ELSE LET m == SetMin(S \ {x}) IN IF x < m THEN x ELSE m

\* String.prototype.startsWith
startsWith(s, p) == Len(s) >= Len(p) /\ SubSeq(s, 1, Len(p)) = p

\* String.prototype.includes
includes(s, sub) ==
    \E k \in 1..(Len(s) - Len(sub) + 1) : SubSeq(s, k, k + Len(sub) - 1) = sub

\* s.split(':')[1]: the text between the first colon and the next one
splitColon1(s) ==
    LET cs    == {k \in 1..Len(s) : s[k] = ":"}
        first == SetMin(cs)
        rest  == {k \in cs : k > first}
        stop  == IF rest = {} THEN Len(s) + 1 ELSE SetMin(rest)
    IN  SubSeq(s, first + 1, stop - 1)

\* String.prototype.trim
RECURSIVE trim(_)
trim(s) ==
    IF s = <<>> THEN s
    ELSE IF Head(s) = " " THEN trim(Tail(s))
    ELSE IF s[Len(s)] = " " THEN trim(SubSeq(s, 1, Len(s) - 1))
    ELSE s

Digits == {"0", "1", "2", "3", "4", "5", "6", "7", "8", "9"}

digitVal(c) ==
    CASE c = "0" -> 0 [] c = "1" -> 1 [] c = "2" -> 2 [] c = "3" -> 3
      [] c = "4" -> 4 [] c = "5" -> 5 [] c = "6" -> 6 [] c = "7" -> 7
      [] c = "8" -> 8 [] c = "9" -> 9

\* parseInt: the longest prefix of decimal digits, NaN when there is none
RECURSIVE parseDigits(_, _)
parseDigits(s, acc) ==
    IF s = <<>> \/ Head(s) \notin Digits THEN acc
    ELSE parseDigits(Tail(s), 10 * acc + digitVal(Head(s)))

parseInt(s) ==
    IF s = <<>> \/ Head(s) \notin Digits THEN NaN ELSE parseDigits(s, 0)

WaitPrefix == <<"W", "A", "I", "T", ":">>
CrashMe == <<"C", "R", "A", "S", "H", "_", "M", "E">>

\* step.name.startsWith('WAIT:')
isWaitStep(name) == startsWith(name, WaitPrefix)

\* parseInt(step.name.split(':')[1].trim())
waitMs(name) == parseInt(trim(splitColon1(name)))

\* step.name.includes('CRASH_ME')
isPoisonPill(name) == includes(name, CrashMe)

\* String.prototype.toLowerCase
lowerOf(c) ==
    CASE c = "A" -> "a" [] c = "B" -> "b" [] c = "C" -> "c" [] c = "D" -> "d"
      [] c = "E" -> "e" [] c = "F" -> "f" [] c = "G" -> "g" [] c = "H" -> "h"
      [] c = "I" -> "i" [] c = "J" -> "j" [] c = "K" -> "k" [] c = "L" -> "l"
      [] c = "M" -> "m" [] c = "N" -> "n" [] c = "O" -> "o" [] c = "P" -> "p"
      [] c = "Q" -> "q" [] c = "R" -> "r" [] c = "S" -> "s" [] c = "T" -> "t"
      [] c = "U" -> "u" [] c = "V" -> "v" [] c = "W" -> "w" [] c = "X" -> "x"
      [] c = "Y" -> "y" [] c = "Z" -> "z"
      [] OTHER -> c

toLowerCase(s) == [k \in 1..Len(s) |-> lowerOf(s[k])]

KeyHotel == <<"h", "o", "t", "e", "l">>
KeyTokyo == <<"t", "o", "k", "y", "o">>
KeyJapan == <<"j", "a", "p", "a", "n">>

\* buildUserFacingOutput: ['hotel', ...].some(k => name.includes(k))
wantsHotels(name) == includes(toLowerCase(name), KeyHotel)

\* inferPlaceFromStep, for a goal that names no destination
inferPlaceFromStep(name) ==
    IF includes(toLowerCase(name), KeyTokyo) THEN "Tokyo"
    ELSE IF includes(toLowerCase(name), KeyJapan) THEN "Japan"
    ELSE "your destination"

\* a context (and a context patch) is a function from keys to values
NoContext == [k \in {} |-> ""]

\* buildUserFacingOutput's contextPatch for a step of agent 'System': a wait
\* step and a step that matches no keyword patch nothing; a hotel step patches
\* hotels with buildHotelsOutput(place, durationDays), whatever the context
\* already holds
contextPatchOf(name) ==
    IF startsWith(toLowerCase(name), toLowerCase(WaitPrefix)) THEN NoContext
    ELSE IF wantsHotels(name) THEN [k \in {"hotels"} |-> inferPlaceFromStep(name)]
    ELSE NoContext

KeyItinerary == <<"i", "t", "i", "n", "e", "r", "a", "r", "y">>
KeyFinalItinerary == <<"f", "i", "n", "a", "l", " ", "i", "t", "i", "n", "e", "r", "a", "r", "y">>
SendFinalItinerary == <<"S", "e", "n", "d", " ", "F", "i", "n", "a", "l", " ", "I", "t", "i", "n", "e", "r", "a", "r", "y">>

\* buildUserFacingOutput: wantsItinerary, as far as the keyword 'itinerary'
wantsItinerary(name) == includes(toLowerCase(name), KeyItinerary)

\* buildUserFacingOutput: isFinalItineraryStep
isFinalItineraryStep(name) ==
    \/ toLowerCase(trim(name)) = toLowerCase(SendFinalItinerary)
    \/ includes(toLowerCase(name), KeyFinalItinerary)

\* buildUserFacingOutput's contextPatch of the final itinerary step: the
\* results the context lacks, built on the spot, and the template itinerary
finalItineraryPatch(name, context) ==
    [k \in ({"dates", "flights", "hotels", "transport", "activities"}
                \ DOMAIN context) \cup {"itineraryMarkdown"} |->
        IF k = "itineraryMarkdown" THEN "template"
        ELSE IF k = "hotels" THEN inferPlaceFromStep(name)
        ELSE "built"]

\* buildUserFacingOutput's contextPatch, given the context findById returned:
\* a draft itinerary step patches nothing
patchFor(name, context) ==
    IF startsWith(toLowerCase(name), toLowerCase(WaitPrefix)) THEN NoContext
    ELSE IF wantsItinerary(name) /\ ~isFinalItineraryStep(name) THEN NoContext
    ELSE IF wantsItinerary(name) THEN finalItineraryPatch(name, context)
    ELSE contextPatchOf(name)

\* buildUserFacingOutput's output: null for a wait step, the template
\* itinerary for the final itinerary step, the hotels for a hotel step, and
\* undefined for a draft itinerary step and for a step that matches no keyword
outputOf(name) ==
    IF startsWith(toLowerCase(name), toLowerCase(WaitPrefix)) THEN "null"
    ELSE IF wantsItinerary(name) /\ ~isFinalItineraryStep(name) THEN "undefined"
    ELSE IF wantsItinerary(name) THEN "template"
    ELSE IF wantsHotels(name) THEN "hotels"
    ELSE "undefined"

\* { ...(workflow.context ?? {}), ...contextPatch }
spread(context, patch) ==
    [k \in DOMAIN context \cup DOMAIN patch |->
        IF k \in DOMAIN patch THEN patch[k] ELSE context[k]]

\* ------------------------------------------------------------------ plans
\* The step lists handed to the creation paths.

NameA == <<"A">>
NameB == <<"B">>
NameWait == <<"W", "A", "I", "T", ":", "5", "0", "0", "0">>
NameWaitSp == <<"W", "A", "I", "T", ":", " ", "5", "0", "0", "0">>
NameCrash == <<"C", "R", "A", "S", "H", "_", "M", "E", "_", "N", "O", "W">>
NameHotelTokyo == <<"H", "o", "t", "e", "l", " ", "T", "o", "k", "y", "o">>
NameItinerary == SendFinalItinerary
NameHotelJapan == <<"H", "o", "t", "e", "l", " ", "J", "a", "p", "a", "n">>

\* createWorkflow(goal, steps) with a step list: the scenario of the spec and
\* the 'Demonstrate Resilience' seed (shortened to the steps around the pill)
DirectPlans == { <<NameA, NameWait, NameB>>, <<NameCrash, NameHotelTokyo>> }

\* POST /api/workflows: the planner's stepsData
ApiPlans == { <<NameA, NameWaitSp, NameB>> }

\* POST /api/workflows: a plan whose steps look for a hotel in two places
HotelPlans == { <<NameHotelTokyo, NameHotelJapan>> }

\* POST /api/workflows: a plan of one step
ShortPlans == { <<NameB>> }

\* travel_workflow / dynamic_workflow seeding
SeedPlans == { <<NameA, NameWaitSp, NameB>> }

\* POST /api/workflows: a plan that opens with a wait
LifePlans == { <<NameWaitSp, NameHotelTokyo>> }

\* POST /api/workflows: plans that end with the final itinerary
ItineraryPlans == { <<NameWaitSp, NameItinerary>>, <<NameItinerary>> }

\* a call with no step at all: createWorkflow(goal, []), and the planner's
\* answer "[]" (also what an empty answer is replaced by) on the endpoint
EmptyPlans == { <<>> }

\* the clock is sampled at the grain of the plans' WAIT duration
TickMs == waitMs(NameWait)

\* ------------------------------------------------------------------ store

\* logs is the last line of step.logs ("" while the array is empty); lines is
\* the array itself, line by line, as far as its first MaxLogs entries, in the
\* behaviours that follow it (keepDetail), and stays empty in the others; output
\* is the kind of step.output ("unset" until a save carries one), in the same
\* behaviours
StepDoc(w, name, status, sched) ==
    [workflowId |-> w, name |-> name, status |-> status, scheduledFor |-> sched,
     logs |-> "", lines |-> <<>>, output |-> "unset"]

\* step.logs.push(...) of the lines new, once saved: mongoose sends a $push,
\* which appends to the array in the store
push(lines, new) ==
    LET all == lines \o new
    IN  IF ~keepDetail THEN lines
        ELSE IF Len(all) <= MaxLogs THEN all ELSE SubSeq(all, 1, MaxLogs)

\* step.output = ...; await step.save()
setOutput(old, new) == IF keepDetail THEN new ELSE old

\* the lines executeStep saves before its WAIT check: 'Started execution at
\* ...', and for a step that is no wait step the four agent thoughts
startLines(name) ==
    IF isWaitStep(name) THEN <<"Started">>
    ELSE <<"Started", "Thought", "Thought", "Thought", "Thought">>

WorkflowDoc(via) == [status |-> "PENDING", via |-> via, context |-> NoContext]

Ids == 1..Len(steps)

StepsOf(w) == {i \in Ids : steps[i].workflowId = w}

NoDoc == [id |-> 0, scheduledFor |-> 0, modified |-> FALSE]

\* the filter without its guard on the state: a step that is already RUNNING
\* still matches, as with a read followed by a separate write
EligibleOrRunning(i) ==
    steps[i].status \in {"PENDING", "RUNNING"} /\ steps[i].scheduledFor <= now

\* the filter without its guard on the schedule: a PENDING step matches
\* whatever its scheduledFor
EligibleIgnoringSchedule(i) == steps[i].status = "PENDING"

\* the filter without its guard on the state: a BLOCKED step matches too
EligibleOrBlocked(i) ==
    steps[i].status \in {"PENDING", "BLOCKED"} /\ steps[i].scheduledFor <= now

\* a claim filter that serves nothing while some step is FAILED
EligibleUnlessFailure(i) ==
    /\ steps[i].status = "PENDING"
    /\ steps[i].scheduledFor <= now
    /\ \A j \in Ids : steps[j].status # "FAILED"

\* filter of acquireNextStep: { status: PENDING, scheduledFor: { $lte: now } }
Eligible(i) == steps[i].status = "PENDING" /\ steps[i].scheduledFor <= now

\* a sort on _id alone
BeforeById(i, j) == i < j

\* sort: { scheduledFor: 1, _id: 1 }
Before(i, j) ==
    \/ steps[i].scheduledFor < steps[j].scheduledFor
    \/ steps[i].scheduledFor = steps[j].scheduledFor /\ i < j

EligibleIds == {i \in Ids : Eligible(i)}

NextEligible == CHOOSE i \in EligibleIds : \A j \in EligibleIds \ {i} : Before(i, j)

\* Step.findOne({ workflowId, status: BLOCKED, _id: { $ne: step._id } }).sort({ _id: 1 })
BlockedOf(i) ==
    {j \in Ids : /\ steps[j].workflowId = steps[i].workflowId
                 /\ steps[j].status = "BLOCKED"
                 /\ j # i}

FindNextBlocked(i) == IF BlockedOf(i) = {} THEN 0 ELSE SetMin(BlockedOf(i))

\* the chain successor of step i: the next step of the same workflow (0: none)
Succ(i) ==
    IF i + 1 \in Ids /\ steps[i + 1].workflowId = steps[i].workflowId
    THEN i + 1 ELSE 0

\* Step.find({ status: RUNNING }), in _id order
RECURSIVE SortIds(_)
SortIds(S) == IF S = {} THEN <<>> ELSE <<SetMin(S)>> \o SortIds(S \ {SetMin(S)})

RunningIds == {i \in Ids : steps[i].status = "RUNNING"}

\* ------------------------------------------------------------------- init

InitState ==
    /\ now = 0
    /\ wfs = <<>>
    /\ steps = <<>>
    /\ pc = [e \in Engines |-> "down"]
    /\ cur = [e \in Engines |-> 0]
    /\ nxt = [e \in Engines |-> NoDoc]
    /\ stuck = [e \in Engines |-> <<>>]
    /\ wfctx = [e \in Engines |-> NoContext]
    /\ kills = 0
    /\ doneAt = <<>>
    /\ isRunning = [e \in Engines |-> FALSE]
    /\ connected = [e \in Engines |-> FALSE]

Init == InitState /\ keepDetail = FALSE

\* the same start, in a behaviour that follows the logs arrays line by line
\* and the outputs
InitDetail == InitState /\ keepDetail = TRUE

\* ------------------------------------------------------- creation paths

NewSteps(w, names, firstOnly, sched) ==
    [k \in 1..Len(names) |->
        StepDoc(w, names[k],
                IF firstOnly /\ k > 1 THEN "BLOCKED" ELSE "PENDING", sched)]

Insert(via, names, firstOnly) ==
    /\ Len(steps) + Len(names) <= MaxSteps
    /\ Len(wfs) < MaxSteps
    /\ wfs' = Append(wfs, WorkflowDoc(via))
    /\ steps' = steps \o NewSteps(Len(wfs) + 1, names, firstOnly, now)
    /\ doneAt' = doneAt \o [k \in 1..Len(names) |-> NoTime]
    /\ UNCHANGED <<keepDetail, now, pc, cur, nxt, stuck, kills, wfctx, isRunning, connected>>

\* EventHorizon.createWorkflow(goal, steps): every step document is inserted
\* with status PENDING and the schema's default scheduledFor (Date.now)
createWorkflow(names) == Insert("createWorkflow", names, FALSE)

\* POST /api/workflows: createWorkflow(prompt, []) and then an insertMany with
\* status index === 0 ? PENDING : BLOCKED and scheduledFor: new Date()
PostWorkflow(names) == Insert("api", names, TRUE)

\* travel_workflow.ts / dynamic_workflow.ts: deleteMany({}) on both
\* collections, createWorkflow(goal, []) and a manual insertMany with
\* index === 0 ? PENDING : BLOCKED.  Run against an empty store.
SeedWorkflow(names) ==
    /\ wfs = <<>> /\ steps = <<>>
    /\ Insert("seed", names, TRUE)

\* ----------------------------------------------------------- the engine

SetStatus(i, st) == [steps EXCEPT ![i].status = st]

AfterRecover(rest) == IF rest = <<>> THEN "poll" ELSE "recover"

\* start() on the engine object whose loops are the slots S, run in a slot e
\* that holds no loop: isRunning = true, connect when readyState !== 1, then
\* recoverState's Step.find({ status: RUNNING }).  Nothing in start() looks
\* at a loop that a former call launched.
startLoop(S, e) ==
    /\ pc[e] \in {"down", "stopped"}
    /\ isRunning' = [f \in Engines |-> IF f \in S THEN TRUE ELSE isRunning[f]]
    /\ connected' = [f \in Engines |-> IF f \in S THEN TRUE ELSE connected[f]]
    /\ stuck' = [stuck EXCEPT ![e] = SortIds(RunningIds)]
    /\ pc' = [pc EXCEPT ![e] = AfterRecover(stuck'[e])]
    /\ UNCHANGED <<keepDetail, now, wfs, steps, cur, nxt, kills, doneAt, wfctx>>

\* start() of an engine object in a process of its own
start(e) == startLoop({e}, e)

\* stop(): this.isRunning = false; await mongoose.disconnect().  It waits for
\* no loop and for no step.
stop(S) ==
    /\ \E e \in S : isRunning[e]
    /\ isRunning' = [f \in Engines |-> IF f \in S THEN FALSE ELSE isRunning[f]]
    /\ connected' = [f \in Engines |-> IF f \in S THEN FALSE ELSE connected[f]]
    /\ UNCHANGED <<keepDetail, now, wfs, steps, pc, cur, nxt, stuck, kills, doneAt, wfctx>>

\* recoverState rewriting the schedule as well: scheduledFor = new Date()
recoverStateNow(e) ==
    /\ pc[e] = "recover"
    /\ connected[e]
    /\ stuck[e] # <<>>
    /\ steps' = [steps EXCEPT ![Head(stuck[e])].status = "PENDING",
                              ![Head(stuck[e])].scheduledFor = now]
    /\ stuck' = [stuck EXCEPT ![e] = Tail(stuck[e])]
    /\ pc' = [pc EXCEPT ![e] = AfterRecover(stuck'[e])]
    /\ UNCHANGED <<keepDetail, now, wfs, cur, nxt, kills, doneAt, wfctx, isRunning, connected>>

\* recoverState, one turn of its loop: step.status = PENDING; await step.save()
\* (save writes the modified path only: scheduledFor is not touched)
recoverState(e) ==
    /\ pc[e] = "recover"
    /\ connected[e]
    /\ stuck[e] # <<>>
    /\ steps' = SetStatus(Head(stuck[e]), "PENDING")
    /\ stuck' = [stuck EXCEPT ![e] = Tail(stuck[e])]
    /\ pc' = [pc EXCEPT ![e] = AfterRecover(stuck'[e])]
    /\ UNCHANGED <<keepDetail, now, wfs, cur, nxt, kills, doneAt, wfctx, isRunning, connected>>

\* acquireNextStep: findOneAndUpdate(filter, { status: RUNNING }, sort), one
\* indivisible store operation, when a document matches
acquireNextStep(e) ==
    /\ pc[e] = "poll"
    /\ isRunning[e]
    /\ connected[e]
    /\ EligibleIds # {}
    /\ LET i == NextEligible
       IN  /\ steps' = SetStatus(i, "RUNNING")
           /\ cur' = [cur EXCEPT ![e] = i]
    /\ pc' = [pc EXCEPT ![e] = "exec"]
    /\ UNCHANGED <<keepDetail, now, wfs, nxt, stuck, kills, doneAt, wfctx, isRunning, connected>>

\* acquireNextStep returns null: the loop sleeps for pollInterval
acquireNothing(e) ==
    /\ pc[e] = "poll"
    /\ isRunning[e]
    /\ connected[e]
    /\ EligibleIds = {}
    /\ pc' = [pc EXCEPT ![e] = "sleep"]
    /\ UNCHANGED <<keepDetail, now, wfs, steps, cur, nxt, stuck, kills, doneAt, wfctx, isRunning, connected>>

\* the setTimeout of the loop fires (pollInterval after an empty poll, 5000
\* after an error); the loop is back at its while (this.isRunning) test
Wake(e) ==
    /\ pc[e] \in {"sleep", "backoff"}
    /\ pc' = [pc EXCEPT ![e] = "poll"]
    /\ UNCHANGED <<keepDetail, now, wfs, steps, cur, nxt, stuck, kills, doneAt, wfctx, isRunning, connected>>

\* executeStep, up to the WAIT check: the 'Started execution' line and the
\* agent thoughts are pushed to step.logs and saved (logs only)
BeginExecution(e) ==
    /\ pc[e] = "exec"
    /\ connected[e]
    /\ steps' = [steps EXCEPT
                   ![cur[e]].logs =
                       IF isWaitStep(steps[cur[e]].name) THEN "Started" ELSE "Thought",
                   ![cur[e]].lines = push(@, startLines(steps[cur[e]].name))]
    /\ pc' = [pc EXCEPT ![e] =
                IF isWaitStep(steps[cur[e]].name) THEN "waitfind" ELSE "handler"]
    /\ UNCHANGED <<keepDetail, now, wfs, cur, nxt, stuck, kills, doneAt, wfctx, isRunning, connected>>

\* WAIT handling: findOne of the next BLOCKED step, and
\* nextStep.scheduledFor = new Date(Date.now() + ms) on the document in memory
WaitFind(e) ==
    /\ pc[e] = "waitfind"
    /\ connected[e]
    /\ LET j == FindNextBlocked(cur[e])
       IN  IF j = 0
           THEN /\ nxt' = nxt
                /\ pc' = [pc EXCEPT ![e] = "handler"]
           ELSE /\ nxt' = [nxt EXCEPT ![e] =
                            [id |-> j,
                             scheduledFor |-> now + waitMs(steps[cur[e]].name),
                             modified |-> TRUE]]
                /\ pc' = [pc EXCEPT ![e] = "waitsave"]
    /\ UNCHANGED <<keepDetail, now, wfs, steps, cur, stuck, kills, doneAt, wfctx, isRunning, connected>>

\* WAIT handling: await nextStep.save()
WaitSave(e) ==
    /\ pc[e] = "waitsave"
    /\ connected[e]
    /\ steps' = [steps EXCEPT ![nxt[e].id].scheduledFor = nxt[e].scheduledFor]
    /\ pc' = [pc EXCEPT ![e] = "handler"]
    /\ UNCHANGED <<keepDetail, now, wfs, cur, nxt, stuck, kills, doneAt, wfctx, isRunning, connected>>

\* Workflow.findById, retrieveStepKnowledge, buildUserFacingOutput and
\* step.save() of the output (with the log line a wait step pushed after it
\* rescheduled its successor) all return; the patch is spread over the
\* context that findById returned, on the workflow document in memory
HandlerOk(e) ==
    /\ pc[e] = "handler"
    /\ connected[e]
    /\ LET i     == cur[e]
           patch == patchFor(steps[i].name, wfs[steps[i].workflowId].context)
       IN  /\ steps' = [steps EXCEPT
                          ![i].output = IF outputOf(steps[i].name) = "undefined"
                                        THEN @
                                        ELSE setOutput(@, outputOf(steps[i].name)),
                          ![i].logs = IF nxt[e].id # 0 THEN "Scheduled" ELSE @,
                          ![i].lines = IF nxt[e].id # 0
                                       THEN push(@, <<"Scheduled">>) ELSE @]
           /\ IF DOMAIN patch # {}
              THEN /\ wfctx' = [wfctx EXCEPT ![e] =
                                  spread(wfs[steps[i].workflowId].context, patch)]
                   /\ pc' = [pc EXCEPT ![e] = "patch"]
              ELSE /\ wfctx' = wfctx
                   /\ pc' = [pc EXCEPT ![e] = "complete"]
    /\ nxt' = [nxt EXCEPT ![e] = NoDoc]
    /\ UNCHANGED <<keepDetail, now, wfs, cur, stuck, kills, doneAt, isRunning, connected>>

\* workflow.markModified('context'); await workflow.save()
PatchContext(e) ==
    /\ pc[e] = "patch"
    /\ connected[e]
    /\ wfs' = [wfs EXCEPT ![steps[cur[e]].workflowId].context = wfctx[e]]
    /\ wfctx' = [wfctx EXCEPT ![e] = NoContext]
    /\ pc' = [pc EXCEPT ![e] = "complete"]
    /\ UNCHANGED <<keepDetail, now, steps, cur, nxt, stuck, kills, doneAt, isRunning, connected>>

\* the awaits inside the try block of executeStep
InTry == {"exec", "waitfind", "waitsave", "handler", "patch", "complete",
          "itinerary", "itinerarygen", "itinerarysave",
          "unblockfind", "unblocksave"}

\* one of them throws: catch (err) { step.status = FAILED;
\* step.logs.push(`Error: ...`); await step.save() }.  A poison-pill step has
\* no await left once its context is saved.
HandlerFail(e) ==
    /\ pc[e] \in InTry
    /\ connected[e]
    /\ pc[e] = "complete" => ~isPoisonPill(steps[cur[e]].name)
    /\ steps' = [steps EXCEPT
                   ![cur[e]].status = "FAILED",
                   ![cur[e]].logs = "Error",
                   ![cur[e]].lines =
                       push(@, IF pc[e] = "handler" /\ nxt[e].id # 0
                               THEN <<"Scheduled", "Error">> ELSE <<"Error">>)]
    /\ cur' = [cur EXCEPT ![e] = 0]
    /\ nxt' = [nxt EXCEPT ![e] = NoDoc]
    /\ wfctx' = [wfctx EXCEPT ![e] = NoContext]
    /\ pc' = [pc EXCEPT ![e] = "poll"]
    /\ UNCHANGED <<keepDetail, now, wfs, stuck, kills, doneAt, isRunning, connected>>

\* loop() without its try/catch: the rejection of executeStep ends the loop
executeThrowsFatal(e) ==
    /\ pc[e] \in InTry
    /\ pc[e] = "complete" => ~isPoisonPill(steps[cur[e]].name)
    /\ cur' = [cur EXCEPT ![e] = 0]
    /\ nxt' = [nxt EXCEPT ![e] = NoDoc]
    /\ wfctx' = [wfctx EXCEPT ![e] = NoContext]
    /\ pc' = [pc EXCEPT ![e] = "stopped"]
    /\ UNCHANGED <<keepDetail, now, wfs, steps, stuck, kills, doneAt, isRunning, connected>>

\* the store is unreachable (or disconnected) for the whole of a catch: an
\* await of executeStep throws, and the step.save() of its catch throws as
\* well, so executeStep rejects into the catch of loop(), which sleeps 5000
executeThrows(e) ==
    /\ pc[e] \in InTry
    /\ pc[e] = "complete" => ~isPoisonPill(steps[cur[e]].name)
    /\ cur' = [cur EXCEPT ![e] = 0]
    /\ nxt' = [nxt EXCEPT ![e] = NoDoc]
    /\ wfctx' = [wfctx EXCEPT ![e] = NoContext]
    /\ pc' = [pc EXCEPT ![e] = "backoff"]
    /\ UNCHANGED <<keepDetail, now, wfs, steps, stuck, kills, doneAt, isRunning, connected>>

\* a loop that does not test isRunning: while (true)
acquireThrowsUnchecked(e) ==
    /\ pc[e] = "poll"
    /\ pc' = [pc EXCEPT ![e] = "backoff"]
    /\ UNCHANGED <<keepDetail, now, wfs, steps, cur, nxt, stuck, kills, doneAt, wfctx,
                   isRunning, connected>>

\* acquireNextStep throws: the catch of loop() logs and sleeps 5000
acquireThrows(e) ==
    /\ pc[e] = "poll"
    /\ isRunning[e]
    /\ pc' = [pc EXCEPT ![e] = "backoff"]
    /\ UNCHANGED <<keepDetail, now, wfs, steps, cur, nxt, stuck, kills, doneAt, wfctx,
                   isRunning, connected>>

\* recoverState throws: start() rejects before this.loop() is reached
recoverThrows(e) ==
    /\ pc[e] = "recover"
    /\ stuck' = [stuck EXCEPT ![e] = <<>>]
    /\ pc' = [pc EXCEPT ![e] = "stopped"]
    /\ UNCHANGED <<keepDetail, now, wfs, steps, cur, nxt, kills, doneAt, wfctx,
                   isRunning, connected>>

\* while (this.isRunning) finds the flag false: loop() returns
LoopExit(e) ==
    /\ pc[e] = "poll"
    /\ ~isRunning[e]
    /\ pc' = [pc EXCEPT ![e] = "stopped"]
    /\ UNCHANGED <<keepDetail, now, wfs, steps, cur, nxt, stuck, kills, doneAt, wfctx,
                   isRunning, connected>>

Down(e) ==
    /\ pc' = [pc EXCEPT ![e] = "down"]
    /\ cur' = [cur EXCEPT ![e] = 0]
    /\ nxt' = [nxt EXCEPT ![e] = NoDoc]
    /\ stuck' = [stuck EXCEPT ![e] = <<>>]
    /\ wfctx' = [wfctx EXCEPT ![e] = NoContext]
    /\ isRunning' = [isRunning EXCEPT ![e] = FALSE]
    /\ connected' = [connected EXCEPT ![e] = FALSE]

\* if (step.name.includes('CRASH_ME')) process.exit(1)
PoisonPill(e) ==
    /\ pc[e] = "complete"
    /\ isPoisonPill(steps[cur[e]].name)
    /\ Down(e)
    /\ UNCHANGED <<keepDetail, now, wfs, steps, kills, doneAt>>

\* step.status = COMPLETED; await step.save()
MarkCompleted(e) ==
    /\ pc[e] = "complete"
    /\ connected[e]
    /\ ~isPoisonPill(steps[cur[e]].name)
    /\ steps' = [steps EXCEPT ![cur[e]].status = "COMPLETED",
                              ![cur[e]].logs = "Completed",
                              ![cur[e]].lines = push(@, <<"Completed">>)]
    /\ doneAt' = [doneAt EXCEPT ![cur[e]] =
                    IF @ = NoTime /\ Succ(cur[e]) # 0 THEN now ELSE @]
    /\ pc' = [pc EXCEPT ![e] =
                IF steps[cur[e]].name = SendFinalItinerary
                THEN "itinerary" ELSE "unblockfind"]
    /\ UNCHANGED <<keepDetail, now, wfs, cur, nxt, stuck, kills, wfctx, isRunning, connected>>

\* SPECIAL HANDLER of 'Send Final Itinerary', after the COMPLETED save:
\* const wf = await Workflow.findById(step.workflowId)
ItineraryRead(e) ==
    /\ pc[e] = "itinerary"
    /\ connected[e]
    /\ wfctx' = [wfctx EXCEPT ![e] = wfs[steps[cur[e]].workflowId].context]
    /\ pc' = [pc EXCEPT ![e] = "itinerarygen"]
    /\ UNCHANGED <<keepDetail, now, wfs, steps, cur, nxt, stuck, kills, doneAt, isRunning, connected>>

\* the completion of OpenAI returns: final_itinerary.md is written,
\* step.logs.push('Generated final_itinerary.md'), step.output = { ...,
\* itineraryMarkdown: content, file }, await step.save(), and
\* wf.context = { ...wf.context, itineraryMarkdown: content } in memory
ItineraryOutput(e) ==
    /\ pc[e] = "itinerarygen"
    /\ connected[e]
    /\ steps' = [steps EXCEPT ![cur[e]].output = setOutput(@, "generated"),
                              ![cur[e]].logs = "Generated",
                              ![cur[e]].lines = push(@, <<"Generated">>)]
    /\ wfctx' = [wfctx EXCEPT ![e] =
                    spread(@, [k \in {"itineraryMarkdown"} |-> "generated"])]
    /\ pc' = [pc EXCEPT ![e] = "itinerarysave"]
    /\ UNCHANGED <<keepDetail, now, wfs, cur, nxt, stuck, kills, doneAt, isRunning, connected>>

\* wf.markModified('context'); await wf.save()
ItineraryPatch(e) ==
    /\ pc[e] = "itinerarysave"
    /\ connected[e]
    /\ wfs' = [wfs EXCEPT ![steps[cur[e]].workflowId].context = wfctx[e]]
    /\ wfctx' = [wfctx EXCEPT ![e] = NoContext]
    /\ pc' = [pc EXCEPT ![e] = "unblockfind"]
    /\ UNCHANGED <<keepDetail, now, steps, cur, nxt, stuck, kills, doneAt, isRunning, connected>>

\* the completion of OpenAI, or a save after it, throws: the inner catch
\* pushes 'Failed to generate itinerary ...' and saves the step
ItineraryFail(e) ==
    /\ pc[e] \in {"itinerarygen", "itinerarysave"}
    /\ connected[e]
    /\ steps' = [steps EXCEPT ![cur[e]].logs = "Failed",
                              ![cur[e]].lines = push(@, <<"Failed">>)]
    /\ wfctx' = [wfctx EXCEPT ![e] = NoContext]
    /\ pc' = [pc EXCEPT ![e] = "unblockfind"]
    /\ UNCHANGED <<keepDetail, now, wfs, cur, nxt, stuck, kills, doneAt, isRunning, connected>>

ItineraryStep(e) ==
    \/ ItineraryRead(e)
    \/ ItineraryOutput(e)
    \/ ItineraryPatch(e)
    \/ ItineraryFail(e)

\* TRIGGER NEXT STEP closing the workflow when no BLOCKED step is left
UnblockFindClosing(e) ==
    /\ pc[e] = "unblockfind"
    /\ connected[e]
    /\ LET j == FindNextBlocked(cur[e])
       IN  IF j = 0
           THEN /\ nxt' = nxt
                /\ wfs' = [wfs EXCEPT ![steps[cur[e]].workflowId].status = "COMPLETED"]
                /\ cur' = [cur EXCEPT ![e] = 0]
                /\ pc' = [pc EXCEPT ![e] = "poll"]
           ELSE /\ nxt' = [nxt EXCEPT ![e] =
                            IF steps[j].scheduledFor <= now
                            THEN [id |-> j, scheduledFor |-> now, modified |-> TRUE]
                            ELSE [id |-> j, scheduledFor |-> steps[j].scheduledFor,
                                  modified |-> FALSE]]
                /\ wfs' = wfs
                /\ cur' = cur
                /\ pc' = [pc EXCEPT ![e] = "unblocksave"]
    /\ UNCHANGED <<keepDetail, now, steps, stuck, kills, doneAt, wfctx, isRunning, connected>>

\* TRIGGER NEXT STEP assigning scheduledFor = new Date() whatever the
\* document holds
UnblockFindAlwaysNow(e) ==
    /\ pc[e] = "unblockfind"
    /\ connected[e]
    /\ LET j == FindNextBlocked(cur[e])
       IN  IF j = 0
           THEN /\ nxt' = nxt
                /\ cur' = [cur EXCEPT ![e] = 0]
                /\ pc' = [pc EXCEPT ![e] = "poll"]
           ELSE /\ nxt' = [nxt EXCEPT ![e] =
                            [id |-> j, scheduledFor |-> now, modified |-> TRUE]]
                /\ cur' = cur
                /\ pc' = [pc EXCEPT ![e] = "unblocksave"]
    /\ UNCHANGED <<keepDetail, now, wfs, steps, stuck, kills, doneAt, wfctx, isRunning, connected>>

\* TRIGGER NEXT STEP: findOne of the next BLOCKED step, and on the document in
\* memory: if (scheduledFor <= new Date()) scheduledFor = new Date();
\* status = PENDING
UnblockFind(e) ==
    /\ pc[e] = "unblockfind"
    /\ connected[e]
    /\ LET j == FindNextBlocked(cur[e])
       IN  IF j = 0
           THEN /\ nxt' = nxt
                /\ cur' = [cur EXCEPT ![e] = 0]
                /\ pc' = [pc EXCEPT ![e] = "poll"]
           ELSE /\ nxt' = [nxt EXCEPT ![e] =
                            IF steps[j].scheduledFor <= now
                            THEN [id |-> j, scheduledFor |-> now, modified |-> TRUE]
                            ELSE [id |-> j, scheduledFor |-> steps[j].scheduledFor,
                                  modified |-> FALSE]]
                /\ cur' = cur
                /\ pc' = [pc EXCEPT ![e] = "unblocksave"]
    /\ UNCHANGED <<keepDetail, now, wfs, steps, stuck, kills, doneAt, wfctx, isRunning, connected>>

\* TRIGGER NEXT STEP releasing every BLOCKED step of the workflow at once
UnblockSaveAll(e) ==
    /\ pc[e] = "unblocksave"
    /\ connected[e]
    /\ steps' = [i \in Ids |->
                   IF i \in BlockedOf(cur[e])
                   THEN [steps[i] EXCEPT
                           !.status = "PENDING",
                           !.scheduledFor =
                               IF i = nxt[e].id /\ nxt[e].modified
                               THEN nxt[e].scheduledFor ELSE @]
                   ELSE steps[i]]
    /\ nxt' = [nxt EXCEPT ![e] = NoDoc]
    /\ cur' = [cur EXCEPT ![e] = 0]
    /\ pc' = [pc EXCEPT ![e] = "poll"]
    /\ UNCHANGED <<keepDetail, now, wfs, stuck, kills, doneAt, wfctx, isRunning, connected>>

\* TRIGGER NEXT STEP: await nextStep.save() (status, and scheduledFor if it
\* was reassigned)
UnblockSave(e) ==
    /\ pc[e] = "unblocksave"
    /\ connected[e]
    /\ steps' = [steps EXCEPT
                   ![nxt[e].id].status = "PENDING",
                   ![nxt[e].id].scheduledFor =
                       IF nxt[e].modified THEN nxt[e].scheduledFor ELSE @]
    /\ nxt' = [nxt EXCEPT ![e] = NoDoc]
    /\ cur' = [cur EXCEPT ![e] = 0]
    /\ pc' = [pc EXCEPT ![e] = "poll"]
    /\ UNCHANGED <<keepDetail, now, wfs, stuck, kills, doneAt, wfctx, isRunning, connected>>

\* the process is killed (SIGKILL, power loss): everything in memory is gone
Kill(e) ==
    /\ pc[e] # "down"
    /\ kills < MaxKills
    /\ kills' = kills + 1
    /\ Down(e)
    /\ UNCHANGED <<keepDetail, now, wfs, steps, doneAt>>

\* index.ts, on SIGINT or SIGTERM: await engine.stop(); process.exit(0)
shutdown(S) ==
    /\ \E e \in S : pc[e] # "down"
    /\ pc' = [f \in Engines |-> IF f \in S THEN "down" ELSE pc[f]]
    /\ cur' = [f \in Engines |-> IF f \in S THEN 0 ELSE cur[f]]
    /\ nxt' = [f \in Engines |-> IF f \in S THEN NoDoc ELSE nxt[f]]
    /\ stuck' = [f \in Engines |-> IF f \in S THEN <<>> ELSE stuck[f]]
    /\ wfctx' = [f \in Engines |-> IF f \in S THEN NoContext ELSE wfctx[f]]
    /\ isRunning' = [f \in Engines |-> IF f \in S THEN FALSE ELSE isRunning[f]]
    /\ connected' = [f \in Engines |-> IF f \in S THEN FALSE ELSE connected[f]]
    /\ UNCHANGED <<keepDetail, now, wfs, steps, kills, doneAt>>

\* the clock advances, up to the horizon of the model
Tick ==
    /\ now < MaxTicks * TickMs
    /\ now' = now + TickMs
    /\ UNCHANGED <<keepDetail, wfs, steps, pc, cur, nxt, stuck, kills, doneAt, wfctx, isRunning, connected>>

\* the store fails under the engine
Outage(e) ==
    \/ executeThrows(e)
    \/ acquireThrows(e)
    \/ recoverThrows(e)

\* the turns of loop(): claim attempts, sleeps and executeStep
RunStep(e) ==
    \/ acquireNextStep(e)
    \/ acquireNothing(e)
    \/ Wake(e)
    \/ BeginExecution(e)
    \/ WaitFind(e)
    \/ WaitSave(e)
    \/ HandlerOk(e)
    \/ PatchContext(e)
    \/ HandlerFail(e)
    \/ MarkCompleted(e)
    \/ UnblockFind(e)
    \/ UnblockSave(e)

\* what a call of start() goes on to do once it is connected: recoverState,
\* then the turns of loop()
LoopStep(e) ==
    \/ recoverState(e)
    \/ RunStep(e)

EngineStep(e) ==
    \/ start(e)
    \/ PoisonPill(e)
    \/ LoopStep(e)

Next ==
    \/ \E names \in DirectPlans : createWorkflow(names)
    \/ \E names \in ApiPlans : PostWorkflow(names)
    \/ \E names \in SeedPlans : SeedWorkflow(names)
    \/ \E e \in Engines : EngineStep(e)
    \/ \E e \in Engines : Kill(e)
    \/ Tick

Spec == Init /\ [][Next]_vars

\* The reference deployment: one engine instance (server.ts starts one).
NextOne ==
    \/ \E names \in DirectPlans : createWorkflow(names)
    \/ \E names \in ApiPlans \cup HotelPlans \cup ShortPlans : PostWorkflow(names)
    \/ \E names \in SeedPlans : SeedWorkflow(names)
    \/ EngineStep("e1")
    \/ Kill("e1")
    \/ Tick

SpecOne == Init /\ [][NextOne]_vars

\* The process keeps taking steps while it can (the event loop runs every
\* ready continuation), a dead process is started again, and time passes.
FairSpecOne == SpecOne /\ WF_vars(EngineStep("e1")) /\ WF_vars(Tick)

\* The reference deployment, with callers that hand over an empty step list
NextEmpty ==
    \/ NextOne
    \/ \E names \in EmptyPlans : createWorkflow(names)
    \/ \E names \in EmptyPlans : PostWorkflow(names)

SpecEmpty == Init /\ [][NextEmpty]_vars

\* One engine object over its whole life: the store may fail under it, stop()
\* may be called on it and start() again, and index.ts may shut it down.
NextStop ==
    \/ \E names \in LifePlans : PostWorkflow(names)
    \/ start("e1")
    \/ LoopStep("e1")
    \/ Tick
    \/ Outage("e1")
    \/ stop({"e1"})
    \/ LoopExit("e1")
    \/ shutdown({"e1"})

SpecStop == Init /\ [][NextStop]_vars

\* One engine that is started once and keeps running: every handler returns
\* or throws, nothing kills the process (so that recoverState finds no step
\* to save) and the store answers.
NextServe ==
    \/ \E names \in LifePlans \cup ShortPlans : PostWorkflow(names)
    \/ start("e1")
    \/ RunStep("e1")
    \/ Tick

SpecServe == Init /\ [][NextServe]_vars

FairSpecServe ==
    SpecServe /\ WF_vars(start("e1") \/ RunStep("e1")) /\ WF_vars(Tick)

\* One engine whose process can be killed and started again, serving plans
\* that end with the final itinerary, in the behaviours that follow the logs
\* and the outputs.
NextItinerary ==
    \/ \E names \in ItineraryPlans : PostWorkflow(names)
    \/ start("e1")
    \/ LoopStep("e1")
    \/ ItineraryStep("e1")
    \/ Kill("e1")
    \/ Tick

SpecItinerary == InitDetail /\ [][NextItinerary]_vars

\* One engine whose process can be killed and started again and whose store
\* can fail, in the behaviours that follow the logs and the outputs.
NextLogs ==
    \/ \E names \in LifePlans \cup ShortPlans : PostWorkflow(names)
    \/ start("e1")
    \/ LoopStep("e1")
    \/ Kill("e1")
    \/ Outage("e1")
    \/ Tick

SpecLogs == InitDetail /\ [][NextLogs]_vars

\* One engine object in one process on which start() and stop() are called
\* in any order: Engines are the slots for the loops its start() calls have
\* launched, which share the object's flag, the connection and the process.
NextLife ==
    \/ \E names \in LifePlans : PostWorkflow(names)
    \/ \E e \in Engines : startLoop(Engines, e)
    \/ stop(Engines)
    \/ \E e \in Engines : LoopStep(e)
    \/ \E e \in Engines : Outage(e)
    \/ \E e \in Engines : LoopExit(e)
    \/ shutdown(Engines)
    \/ Tick

SpecLife == Init /\ [][NextLife]_vars

\* A turn of the loop: whatever the loop of slot e can do next, the errors
\* that a closed connection raises included
LoopTurn(e) == EngineStep(e) \/ Outage(e) \/ LoopExit(e)

FairSpecStop == SpecStop /\ WF_vars(LoopTurn("e1")) /\ WF_vars(Tick)

\* ================================================================ claims

Executing == {"exec", "waitfind", "waitsave", "handler", "patch", "complete"}

\* a workflow none of whose handlers has thrown and that holds no poison pill
Succeeds(w) ==
    \A i \in StepsOf(w) :
        steps[i].status # "FAILED" /\ ~isPoisonPill(steps[i].name)

Claimed(i) == steps[i].status = "PENDING" /\ steps'[i].status = "RUNNING"

NewlyCompleted(i) == steps[i].status # "COMPLETED" /\ steps'[i].status = "COMPLETED"

\* ------------------------------------------------------------------- C1
\* C1: in every reachable state, every workflow has at most one step whose
\* state is RUNNING.
MutualExclusion ==
    \A w \in 1..Len(wfs) :
        Cardinality({i \in StepsOf(w) : steps[i].status = "RUNNING"}) <= 1

\* ------------------------------------------------------------------- C2
\* C2: every claim attempt that returns a step returns a step that was PENDING
\* and due in the store at that instant, moves exactly that step to RUNNING so
\* that it is no longer eligible for a concurrent attempt, and that transition
\* hands the step to the one claimant only; an attempt that returns no step
\* found none eligible.
NoDoubleClaim ==
    [][\A e \in Engines :
          /\ (pc[e] = "poll" /\ pc'[e] = "exec") =>
                LET i == cur'[e]
                IN  /\ i \in Ids
                    /\ steps[i].status = "PENDING"
                    /\ steps[i].scheduledFor <= now
                    /\ steps'[i].status = "RUNNING"
                    /\ \A j \in Ids \ {i} : steps'[j] = steps[j]
                    /\ \A f \in Engines \ {e} : cur'[f] = cur[f] /\ pc'[f] = pc[f]
          /\ (pc[e] = "poll" /\ pc'[e] = "sleep") =>
                /\ steps' = steps
                /\ \A i \in Ids :
                      ~(steps[i].status = "PENDING" /\ steps[i].scheduledFor <= now)
      ]_vars

\* two instances attempt a claim against a store whose only eligible step has
\* just been handed to one of them: the other's attempt will find no work
TwoClaimantsOneStep ==
    \E e \in Engines : \E f \in Engines \ {e} :
        /\ pc[e] = "exec" /\ pc[f] = "poll"
        /\ steps[cur[e]].status = "RUNNING"
        /\ \A j \in Ids \ {cur[e]} : steps[j].status = "BLOCKED"

\* ------------------------------------------------------------------- C3
\* C3: no two engine instances are executing the handler of the same step
\* at the same time.
NoDoubleExecute ==
    \A e \in Engines : \A f \in Engines \ {e} :
        (pc[e] \in Executing /\ pc[f] \in Executing) => cur[e] # cur[f]

\* ------------------------------------------------------------------- C4
\* C4: in a workflow whose handlers all succeed, a step reaches COMPLETED
\* only after every earlier step of the workflow has, a step is claimed only
\* when its predecessor is COMPLETED, and once a step has left BLOCKED its
\* scheduledFor is at least the completion time of its predecessor.
LinearCompletion ==
    /\ [][\A i \in Ids :
            Succeeds(steps[i].workflowId) =>
                /\ NewlyCompleted(i) =>
                      \A j \in StepsOf(steps[i].workflowId) :
                          j < i => steps[j].status = "COMPLETED"
                /\ Claimed(i) =>
                      \A j \in StepsOf(steps[i].workflowId) :
                          j = i - 1 => steps[j].status = "COMPLETED"
         ]_vars
    /\ [](\A i \in Ids :
            (/\ Succeeds(steps[i].workflowId)
             /\ Succ(i) # 0
             /\ doneAt[i] # NoTime
             /\ steps[Succ(i)].status \in {"RUNNING", "COMPLETED"})
            => steps[Succ(i)].scheduledFor >= doneAt[i])

\* ------------------------------------------------------------------- C5
\* C5: in a workflow whose handlers all succeed, once a wait step with
\* duration d is COMPLETED its chain successor's scheduledFor is at least the
\* completion time plus d, and the successor is not claimed before that
\* deadline.
IsWaitPair(k) ==
    /\ isWaitStep(steps[k].name)
    /\ Succ(k) # 0
    /\ Succeeds(steps[k].workflowId)

WaitCorrectness ==
    /\ [](\A k \in Ids :
            (IsWaitPair(k) /\ doneAt[k] # NoTime)
            => steps[Succ(k)].scheduledFor >= doneAt[k] + waitMs(steps[k].name))
    /\ [][\A k \in Ids :
            (IsWaitPair(k) /\ Claimed(Succ(k)))
            => (doneAt[k] # NoTime /\ now >= doneAt[k] + waitMs(steps[k].name))
         ]_vars

\* ------------------------------------------------------------------- C6
\* C6: in a workflow created by createWorkflow(goal, ["A", "WAIT:5000", "B"])
\* whose handlers succeed, the steps are COMPLETED in the order A, wait, B,
\* and B is claimed only after the wait step is COMPLETED and 5000 ms have
\* passed since A completed.
ScenarioPlan == <<NameA, NameWait, NameB>>

IsScenario(w) ==
    /\ wfs[w].via = "createWorkflow"
    /\ \E a \in Ids : /\ StepsOf(w) = {a, a + 1, a + 2}
                      /\ <<steps[a].name, steps[a + 1].name, steps[a + 2].name>>
                            = ScenarioPlan

ScenarioABWait ==
    [][\A i \in Ids :
          (IsScenario(steps[i].workflowId) /\ Succeeds(steps[i].workflowId)) =>
              /\ NewlyCompleted(i) =>
                    \A j \in StepsOf(steps[i].workflowId) :
                        j < i => steps[j].status = "COMPLETED"
              /\ (Claimed(i) /\ steps[i].name = NameB) =>
                    /\ steps[i - 1].status = "COMPLETED"
                    /\ doneAt[i - 2] # NoTime
                    /\ now >= doneAt[i - 2] + waitMs(steps[i - 1].name)
      ]_vars

\* ------------------------------------------------------------------- C7
\* C7: whichever creation path inserts a workflow, its first step is PENDING
\* and every other step of it is BLOCKED.
InitialStates ==
    [][Len(wfs') > Len(wfs) =>
          \A i \in (1..Len(steps')) \ Ids :
              steps'[i].status =
                  IF i = Len(steps) + 1 THEN "PENDING" ELSE "BLOCKED"
      ]_vars

\* ------------------------------------------------------------------- C8
\* C8: a step left RUNNING by a process that is gone is eventually driven to
\* COMPLETED or FAILED once the engine is started again.
StepRange == 1..MaxSteps

Orphaned(i) ==
    /\ i \in Ids
    /\ steps[i].status = "RUNNING"
    /\ \A e \in Engines : pc[e] = "down"

Terminal(i) == i \in Ids /\ steps[i].status \in {"COMPLETED", "FAILED"}

CrashRecoveryLiveness == \A i \in StepRange : Orphaned(i) ~> Terminal(i)

\* ------------------------------------------------------------------- C9
\* C9: a workflow whose handlers all succeed is never left with a BLOCKED
\* step while none of its steps is PENDING or RUNNING and no engine instance
\* is still working on one of its steps (from such a state no action of the
\* engine ever moves the BLOCKED step).
NoWorkLost ==
    \A w \in 1..Len(wfs) :
        (Succeeds(w) /\ \E i \in StepsOf(w) : steps[i].status = "BLOCKED")
        => \/ \E i \in StepsOf(w) : steps[i].status \in {"PENDING", "RUNNING"}
           \/ \E e \in Engines : cur[e] \in StepsOf(w)

\* ------------------------------------------------------------------ C10
\* C10 as stated: recoverState sets every step it found RUNNING to PENDING
\* with scheduledFor set to the current time.
Recovering(e) ==
    /\ pc[e] = "recover" /\ pc'[e] # "down"
    /\ stuck[e] # <<>> /\ stuck'[e] = Tail(stuck[e])

RecoveryResetsSchedule ==
    [][\A e \in Engines :
          Recovering(e) =>
              /\ steps'[Head(stuck[e])].status = "PENDING"
              /\ steps'[Head(stuck[e])].scheduledFor = now
      ]_vars

\* C10 as amended: recoverState takes every step that is RUNNING at its
\* startup scan, sets each to PENDING and leaves its scheduledFor (and every
\* other step) as it was; the step is eligible right after recovery exactly
\* when that unchanged scheduledFor is not in the future.
RecoveryReset ==
    [][\A e \in Engines :
          /\ (pc[e] = "down" /\ pc'[e] # "down") =>
                {stuck'[e][k] : k \in 1..Len(stuck'[e])}
                    = {i \in Ids : steps[i].status = "RUNNING"}
          /\ Recovering(e) =>
                LET h == Head(stuck[e])
                IN  /\ steps'[h].status = "PENDING"
                    /\ steps'[h].scheduledFor = steps[h].scheduledFor
                    /\ \A j \in Ids \ {h} : steps'[j] = steps[j]
                    /\ (steps'[h].status = "PENDING" /\ steps'[h].scheduledFor <= now')
                          <=> steps[h].scheduledFor <= now
      ]_vars

\* recoverState is half way: it has reset the first step of a workflow, which
\* another instance is still executing, and is about to reset a second step
\* that is RUNNING; both were scheduled before the current time
RecoveredLater ==
    \E e \in Engines : \E f \in Engines \ {e} :
        /\ pc[e] = "recover"
        /\ Len(stuck[e]) = 1
        /\ steps[Head(stuck[e])].status = "RUNNING"
        /\ steps[Head(stuck[e])].scheduledFor < now
        /\ pc[f] \in Executing
        /\ cur[f] \in Ids
        /\ cur[f] < Head(stuck[e])
        /\ \A j \in StepsOf(steps[cur[f]].workflowId) : j >= cur[f]
        /\ steps[cur[f]].status = "PENDING"
        /\ steps[cur[f]].scheduledFor < now

\* ------------------------------------------------------------------ C11
\* C11: recovery (the startup scan and every save of recoverState) leaves the
\* number of steps and of workflows unchanged, and leaves every workflow
\* record and every step that is not RUNNING exactly as it was.
RecoveryDiscardsNothing ==
    [][\A e \in Engines :
          ((pc[e] = "down" /\ pc'[e] # "down") \/ Recovering(e)) =>
              /\ Len(steps') = Len(steps)
              /\ wfs' = wfs
              /\ \A i \in Ids :
                    steps[i].status # "RUNNING" => steps'[i] = steps[i]
      ]_vars

\* ------------------------------------------------------------------ C12
\* C12: a step whose persisted state is COMPLETED is never made PENDING or
\* RUNNING again and is never returned by a claim attempt.
CompletedNeverRerun ==
    [][\A i \in Ids :
          steps[i].status = "COMPLETED" =>
              /\ steps'[i].status \notin {"PENDING", "RUNNING"}
              /\ \A e \in Engines :
                    (pc[e] = "poll" /\ pc'[e] = "exec") => cur'[e] # i
      ]_vars

\* ------------------------------------------------------------------ C13
\* C13: while a workflow sleeps after a wait step (the wait step and the steps
\* before it are COMPLETED, its successor is PENDING with scheduledFor in the
\* future, and no engine is working on the workflow), nothing an engine
\* process does, being killed, restarted and recovering included, changes any
\* step of the workflow: the successor keeps its scheduledFor, it is not
\* claimed, no earlier step runs again, and the startup scan of recoverState
\* finds no step of the workflow to reset.
Idle(w) ==
    \A e \in Engines :
        /\ cur[e] \notin StepsOf(w)
        /\ nxt[e].id \notin StepsOf(w)
        /\ \A n \in 1..Len(stuck[e]) : stuck[e][n] \notin StepsOf(w)

Sleeping(k) ==
    /\ isWaitStep(steps[k].name)
    /\ \A j \in StepsOf(steps[k].workflowId) :
          j <= k => steps[j].status = "COMPLETED"
    /\ Succ(k) # 0
    /\ steps[Succ(k)].status = "PENDING"
    /\ steps[Succ(k)].scheduledFor > now
    /\ Idle(steps[k].workflowId)

RestartWhileSleeping ==
    [][\A k \in Ids :
          Sleeping(k) =>
              /\ \A j \in StepsOf(steps[k].workflowId) : steps'[j] = steps[j]
              /\ \A e \in Engines :
                    /\ (pc[e] = "poll" /\ pc'[e] = "exec") =>
                          cur'[e] \notin StepsOf(steps[k].workflowId)
                    /\ (pc[e] = "down" /\ pc'[e] # "down") =>
                          \A n \in 1..Len(stuck'[e]) :
                              stuck'[e][n] \notin StepsOf(steps[k].workflowId)
      ]_vars

\* the process has been killed while the workflow sleeps and is about to be
\* started again, before the successor's deadline
KilledWhileSleeping ==
    \E k \in Ids :
        /\ Sleeping(k)
        /\ pc["e1"] = "down"
        /\ kills = MaxKills

\* ------------------------------------------------------------------ C14
\* C14: a step whose handler raised an error is FAILED with the error as the
\* last line of its log, and its chain successor is BLOCKED, in every state
\* from then on (it never becomes PENDING).
StallOnFailure ==
    \A k \in Ids :
        steps[k].status = "FAILED" =>
            /\ steps[k].logs = "Error"
            /\ Succ(k) # 0 => steps[Succ(k)].status = "BLOCKED"

\* ------------------------------------------------------------------ C15
\* C15: once the persisted state of a step is COMPLETED or FAILED, no action
\* changes that state again.
TerminalStates ==
    [][\A i \in Ids :
          steps[i].status \in {"COMPLETED", "FAILED"} =>
              steps'[i].status = steps[i].status
      ]_vars

\* ------------------------------------------------------------------ C16
\* C16: a stored step becomes PENDING only by the unblock save of an engine
\* that is finishing its immediate predecessor, from BLOCKED and with that
\* predecessor COMPLETED, or by a save of recoverState, from RUNNING.
Unblocks(e, i) ==
    /\ pc[e] = "unblocksave" /\ pc'[e] = "poll"
    /\ nxt[e].id = i
    /\ steps[i].status = "BLOCKED"
    /\ cur[e] = i - 1
    /\ steps[i - 1].workflowId = steps[i].workflowId
    /\ steps[i - 1].status = "COMPLETED"

Recovers(e, i) ==
    /\ Recovering(e)
    /\ Head(stuck[e]) = i
    /\ steps[i].status = "RUNNING"

PendingEntry ==
    [][\A i \in Ids :
          (steps[i].status # "PENDING" /\ steps'[i].status = "PENDING") =>
              \E e \in Engines : Unblocks(e, i) \/ Recovers(e, i)
      ]_vars

\* ------------------------------------------------------------------ C17
\* C17: a step becomes RUNNING only by a claim attempt and only if it is
\* PENDING with scheduledFor <= now at that instant (a BLOCKED, RUNNING,
\* COMPLETED or FAILED step, or a PENDING step scheduled in the future, is
\* never claimed); a claim attempt returns no step only if the store holds no
\* PENDING step with scheduledFor <= now.
ClaimEligibility ==
    [][/\ \A i \in Ids :
            (steps[i].status # "RUNNING" /\ steps'[i].status = "RUNNING") =>
                /\ steps[i].status = "PENDING"
                /\ steps[i].scheduledFor <= now
                /\ \E e \in Engines :
                      pc[e] = "poll" /\ pc'[e] = "exec" /\ cur'[e] = i
       /\ \A e \in Engines :
            /\ (pc[e] = "poll" /\ pc'[e] = "exec") =>
                  /\ cur'[e] \in Ids
                  /\ steps[cur'[e]].status = "PENDING"
                  /\ steps[cur'[e]].scheduledFor <= now
            /\ (pc[e] = "poll" /\ pc'[e] = "sleep") =>
                  ~ \E i \in Ids :
                        steps[i].status = "PENDING" /\ steps[i].scheduledFor <= now
      ]_vars

\* a claim attempt is about to be made against a store that holds a PENDING
\* step scheduled in the future and COMPLETED steps scheduled in the past, and
\* no eligible step
PollFindsNothingDue ==
    \E e \in Engines :
        /\ pc[e] = "poll"
        /\ \E i \in Ids : steps[i].status = "PENDING" /\ steps[i].scheduledFor > now
        /\ \E i \in Ids : steps[i].status = "COMPLETED" /\ steps[i].scheduledFor <= now
        /\ \A i \in Ids : steps[i].status = "PENDING" => steps[i].scheduledFor > now

\* ------------------------------------------------------------------ C18
\* C18: the step a claim attempt returns is, among all PENDING steps with
\* scheduledFor <= now of all workflows, the one with the smallest
\* (scheduledFor, _id) pair, and the attempt changes the status of that step
\* to RUNNING and nothing else in the store.
ClaimOrder ==
    [][\A e \in Engines :
          (pc[e] = "poll" /\ pc'[e] = "exec") =>
              LET i == cur'[e]
              IN  /\ \A j \in Ids \ {i} :
                        (steps[j].status = "PENDING" /\ steps[j].scheduledFor <= now)
                        => \/ steps[i].scheduledFor < steps[j].scheduledFor
                           \/ /\ steps[i].scheduledFor = steps[j].scheduledFor
                              /\ i < j
                  /\ steps' = [steps EXCEPT ![i].status = "RUNNING"]
                  /\ wfs' = wfs
      ]_vars

\* a claim attempt is about to be made while two steps are eligible and the
\* one inserted first is scheduled later than the other
PollOutOfInsertionOrder ==
    \E e \in Engines :
        /\ pc[e] = "poll"
        /\ \E i \in Ids : \E j \in Ids :
              /\ i < j
              /\ Eligible(i) /\ Eligible(j)
              /\ steps[i].scheduledFor > steps[j].scheduledFor

\* ------------------------------------------------------------------ C19
\* C19: whenever a workflow's context changes, every key that was present
\* before is still present with the value it had; only keys that were absent
\* are added.
ContextKeysKept ==
    [][\A w \in 1..Len(wfs) :
          \A k \in DOMAIN wfs[w].context :
              /\ k \in DOMAIN wfs'[w].context
              /\ wfs'[w].context[k] = wfs[w].context[k]
      ]_vars

\* ------------------------------------------------------------------ C20
\* C20: every entry of a workflow's context was patched in by a step of the
\* workflow that is COMPLETED, or by an execution that is still under way and
\* about to mark its step COMPLETED: an execution that ended FAILED or was
\* cut short by a process exit has left nothing in the context.
PatchedBy(i, w, k) ==
    /\ k \in DOMAIN contextPatchOf(steps[i].name)
    /\ contextPatchOf(steps[i].name)[k] = wfs[w].context[k]

ContextFrame ==
    \A w \in 1..Len(wfs) :
        \A k \in DOMAIN wfs[w].context :
            \E i \in StepsOf(w) :
                /\ PatchedBy(i, w, k)
                /\ \/ steps[i].status = "COMPLETED"
                   \/ \E e \in Engines : cur[e] = i /\ pc[e] = "complete"

\* C21 -- Normal execution never leaves a step RUNNING: whenever executeStep
\* returns or throws while the process stays alive (the handler succeeded, an
\* await threw, the store failed on any read or write), the step it was
\* called with is persisted COMPLETED or FAILED.
ExecutionEnds(e) ==
    /\ pc[e] \in InTry
    /\ pc'[e] \in {"poll", "backoff"}

NeverLeftRunning ==
    [][\A e \in Engines :
          ExecutionEnds(e) => steps'[cur[e]].status \in {"COMPLETED", "FAILED"}]_vars

\* C22 -- Store failures in the loop are never fatal: a claim attempt or a
\* step execution that throws does not end the loop (the loop ends only by
\* finding the stop flag cleared at its while test, or with the process), and
\* from its back-off the loop always comes back to the while test, where a
\* set flag means another claim attempt.
InLoop == {"poll", "sleep", "backoff"} \cup InTry

LoopSurvivesStoreFailure ==
    /\ [][\A e \in Engines :
            (pc[e] \in InLoop /\ pc'[e] = "stopped")
                => (pc[e] = "poll" /\ ~isRunning[e])]_vars
    /\ \A e \in Engines :
            (pc[e] = "backoff") ~> (pc[e] = "poll" \/ pc[e] = "down")

\* the loop is backing off after a failed execution, its flag still set
BackingOff ==
    \E e \in Engines :
        /\ pc[e] = "backoff"
        /\ isRunning[e]
        /\ RunningIds # {}

\* C23 -- An empty step list is rejected at creation time: no creation path
\* leaves a workflow record that has no step.
NoEmptyWorkflow == \A w \in 1..Len(wfs) : StepsOf(w) # {}

\* C24 -- Cooperative stop terminates the loop: with the flag cleared by
\* stop(), the loop leaves its while test only by returning; a step is
\* claimed only from a while test that found the flag set, so a loop that has
\* returned claims nothing; and under fairness (timers fire, awaits settle) a
\* loop whose flag is cleared eventually terminates.
CooperativeStop ==
    /\ [][\A e \in Engines :
            /\ (pc[e] = "poll" /\ ~isRunning[e] /\ pc'[e] # "poll")
                   => pc'[e] \in {"stopped", "down"}
            /\ (pc'[e] = "exec" /\ pc[e] # "exec")
                   => (pc[e] = "poll" /\ isRunning[e])
            /\ (pc[e] = "stopped" /\ pc'[e] # "stopped")
                   => (pc'[e] = "down" \/ isRunning'[e])]_vars
    /\ \A e \in Engines :
            (pc[e] \in InLoop /\ ~isRunning[e])
                ~> (pc[e] \in {"stopped", "down"})

\* the loop has returned after stop() and left due work unclaimed
StoppedWithDueWork ==
    \E e \in Engines :
        /\ pc[e] = "stopped"
        /\ ~isRunning[e]
        /\ EligibleIds # {}

\* C25 -- stop() does not interrupt a step in flight: an execution that is in
\* progress when the flag is cleared ends only by returning to the while test
\* of the loop, with the step persisted COMPLETED or FAILED (a poison-pill
\* step, which exits the process with or without a stop, apart).
StopLetsStepFinish ==
    [][\A e \in Engines :
          (/\ pc[e] \in InTry
           /\ ~isRunning[e]
           /\ ~isPoisonPill(steps[cur[e]].name)
           /\ pc'[e] \notin InTry)
              => (/\ pc'[e] = "poll"
                  /\ steps'[cur[e]].status \in {"COMPLETED", "FAILED"})]_vars

\* C26 -- Single logical worker: whatever start() and stop() calls are made
\* on one engine object, the loops it has launched never have two step
\* executions in flight at once.
SingleLogicalWorker ==
    \A e \in Engines : \A f \in Engines \ {e} :
        ~(pc[e] \in InTry /\ pc[f] \in InTry)

\* C27 -- Recovery runs once and before the loop: within one engine object no
\* claim attempt is made while recoverState has not finished, and
\* recoverState does not run while a loop of that object has a claimed step
\* in flight.
ClaimAttempt(e) ==
    /\ pc[e] = "poll"
    /\ pc'[e] \in {"exec", "sleep", "backoff"}

\* the scan of recoverState, or one of its saves
RecoveryStep(e) ==
    \/ pc[e] \in {"down", "stopped"} /\ pc'[e] \in {"recover", "poll"}
    \/ pc[e] = "recover" /\ stuck'[e] # stuck[e] /\ pc'[e] # "down"

RecoveryBeforeLoop ==
    [][\A e \in Engines : \A f \in Engines :
          /\ ClaimAttempt(e) => pc[f] # "recover"
          /\ RecoveryStep(e) => pc[f] \notin InTry]_vars

\* C28 -- The engine never advances a workflow's status: no action changes
\* the status field of a stored workflow from its creation value, neither
\* when the last step of the chain completes nor when the chain stalls on a
\* FAILED step.
WorkflowStatusFrame ==
    [][/\ \A w \in 1..Len(wfs) :
             w <= Len(wfs') /\ wfs'[w].status = wfs[w].status
       /\ \A w \in 1..Len(wfs') : wfs'[w].status = "PENDING"]_vars

\* one workflow has run to its end, another is stalled on a FAILED step, and
\* the engine has nothing left to do
FinishedAndStalled ==
    /\ \E w \in 1..Len(wfs) :
          \A i \in StepsOf(w) : steps[i].status = "COMPLETED"
    /\ \E w \in 1..Len(wfs) :
          /\ \E i \in StepsOf(w) : steps[i].status = "FAILED"
          /\ \E i \in StepsOf(w) : steps[i].status = "BLOCKED"
    /\ pc["e1"] = "sleep"

\* C29 -- Due work is always served: under fairness (handlers return, the
\* loop keeps running, a dead process is started again) every step that is
\* PENDING with scheduledFor <= now is eventually claimed, whatever other
\* workflows are sleeping or stalled on a FAILED step.  A poison-pill step,
\* whose handler never returns, is outside the fairness assumption.
PillWaiting ==
    \E j \in Ids :
        /\ isPoisonPill(steps[j].name)
        /\ steps[j].status \in {"PENDING", "RUNNING"}

DueWorkServed ==
    \A i \in StepRange :
        (i \in Ids /\ Eligible(i))
            ~> ((i \in Ids /\ steps[i].status # "PENDING") \/ PillWaiting)

\* a step is claimed while another workflow is stalled on a FAILED step
ServedPastStalled ==
    \E i \in Ids :
        /\ steps[i].status = "RUNNING"
        /\ cur["e1"] = i
        /\ \E j \in Ids :
              /\ steps[j].workflowId # steps[i].workflowId
              /\ steps[j].status = "FAILED"
              /\ Succ(j) # 0
              /\ steps[Succ(j)].status = "BLOCKED"

\* C30 -- Wait ordering: a wait step writes its successor's scheduledFor while
\* the successor is still BLOCKED and before the wait step itself is
\* persisted COMPLETED; consequently the successor of a wait step that has
\* run is never PENDING with a scheduledFor earlier than the time the wait
\* handler ran plus d (the handler ran no earlier than the wait step's own
\* scheduledFor, which is the bound tested here).
WaitOrdering ==
    /\ [][\A e \in Engines :
            (pc[e] = "waitsave" /\ pc'[e] = "handler")
                => (/\ steps[nxt[e].id].status = "BLOCKED"
                    /\ steps[cur[e]].status = "RUNNING")]_vars
    /\ [](\A k \in Ids :
            (/\ isWaitStep(steps[k].name)
             /\ steps[k].status = "COMPLETED"
             /\ Succ(k) # 0
             /\ steps[Succ(k)].status = "PENDING")
                => steps[Succ(k)].scheduledFor
                       >= steps[k].scheduledFor + waitMs(steps[k].name))

\* C31 -- Unblock rule: when unblock-next moves a step from BLOCKED to
\* PENDING, the scheduledFor it decides on, at the time t it reads the clock,
\* is t if the step's scheduledFor was <= t and the step's own scheduledFor
\* if that was in the future, so it is >= t in both cases; and the save that
\* makes the step PENDING stores t in the first case and leaves the stored
\* scheduledFor as it is in the second.
UnblockDecides(e) == pc[e] = "unblockfind" /\ pc'[e] = "unblocksave"

UnblockMoves(e, i) ==
    /\ pc[e] = "unblocksave" /\ pc'[e] = "poll"
    /\ nxt[e].id = i
    /\ steps[i].status = "BLOCKED"
    /\ steps'[i].status = "PENDING"

UnblockRule ==
    [][\A e \in Engines :
          /\ UnblockDecides(e) =>
                LET prev == steps[nxt'[e].id].scheduledFor
                IN  /\ nxt'[e].scheduledFor = IF prev <= now THEN now ELSE prev
                    /\ nxt'[e].modified = (prev <= now)
                    /\ nxt'[e].scheduledFor >= now
          /\ \A i \in Ids :
                UnblockMoves(e, i) =>
                    steps'[i].scheduledFor =
                        IF nxt[e].modified THEN nxt[e].scheduledFor
                        ELSE steps[i].scheduledFor]_vars

\* unblock-next has made the successor of a wait step PENDING and left its
\* future scheduledFor in place
UnblockedForLater ==
    \E i \in Ids :
        /\ steps[i].status = "PENDING"
        /\ steps[i].scheduledFor > now
        /\ i - 1 \in Ids
        /\ steps[i - 1].workflowId = steps[i].workflowId
        /\ steps[i - 1].status = "COMPLETED"
        /\ \A e \in Engines : cur[e] = 0

\* C32 -- Successor selection: the step that unblock-next moves to PENDING
\* after Sk completes, and the step whose scheduledFor a wait step Sk
\* rewrites, is the immediate successor Sk+1 in the creation order of Sk's
\* workflow: never an earlier step, a later step or a step of another
\* workflow.
WaitRewrites(e, i) ==
    /\ pc[e] = "waitsave" /\ pc'[e] = "handler"
    /\ nxt[e].id = i

ImmediateSuccessor(k, i) ==
    /\ i = k + 1
    /\ steps[i].workflowId = steps[k].workflowId

SuccessorSelection ==
    [][\A e \in Engines : \A i \in Ids :
          (UnblockMoves(e, i) \/ WaitRewrites(e, i))
              => ImmediateSuccessor(cur[e], i)]_vars

\* C33 -- Step logs are append-only: no engine action removes or rewrites a
\* line a step's logs already hold, so the length of the logs never
\* decreases; every execution of a step (a re-execution after recovery
\* included) appends exactly one 'Started execution' line, before the handler
\* is invoked, and ends by appending a completion line or an error line.
Added(i) == SubSeq(steps'[i].lines, Len(steps[i].lines) + 1, Len(steps'[i].lines))

StartedIn(s) == Cardinality({n \in DOMAIN s : s[n] = "Started"})

LogKept(i) ==
    /\ Len(steps'[i].lines) >= Len(steps[i].lines)
    /\ SubSeq(steps'[i].lines, 1, Len(steps[i].lines)) = steps[i].lines

ExecutionBegins(e) == pc[e] = "exec" /\ pc'[e] \in {"waitfind", "handler"}

ExecutionReturns(e) == cur[e] # 0 /\ cur'[e] = 0 /\ pc'[e] # "down"

LogShape(e) ==
    /\ ExecutionBegins(e) /\ Len(steps'[cur[e]].lines) < MaxLogs =>
          /\ Added(cur[e])[1] = "Started"
          /\ StartedIn(Added(cur[e])) = 1
    /\ ~ExecutionBegins(e) /\ cur[e] # 0 =>
          StartedIn(Added(cur[e])) = 0
    /\ pc'[e] = "handler" /\ Len(steps'[cur'[e]].lines) < MaxLogs =>
          StartedIn(steps'[cur'[e]].lines) >= 1

LogsAppendOnly ==
    [][/\ \A i \in Ids : LogKept(i)
       /\ \A e \in Engines :
             /\ LogShape(e)
             /\ ExecutionReturns(e) =>
                   steps'[cur[e]].logs \in {"Completed", "Error"}]_vars

\* what remains of it: an execution that ends with neither line ends because
\* executeStep rejected into the catch of loop()
LogsAppendOnlyUnlessRejected ==
    [][/\ \A i \in Ids : LogKept(i)
       /\ \A e \in Engines :
             /\ LogShape(e)
             /\ ExecutionReturns(e) /\ pc'[e] # "backoff" =>
                   steps'[cur[e]].logs \in {"Completed", "Error"}]_vars

ReExecutedAndLogged ==
    \E i \in Ids :
        /\ StartedIn(steps[i].lines) = 2
        /\ steps[i].status = "COMPLETED"

\* C34 -- Chain shape (one engine instance, workflows created with the first
\* step PENDING and the rest BLOCKED): in every reachable state, after
\* crashes and recoveries too, the steps of a workflow in creation order are
\* a prefix of COMPLETED steps, then at most one step that is PENDING, RUNNING
\* or FAILED, then BLOCKED steps only.
ChainRank(st) ==
    IF st = "COMPLETED" THEN 0
    ELSE IF st = "BLOCKED" THEN 2
    ELSE 1

ChainShaped(w) ==
    /\ \A i, j \in StepsOf(w) :
          i < j => ChainRank(steps[i].status) <= ChainRank(steps[j].status)
    /\ Cardinality({i \in StepsOf(w) : ChainRank(steps[i].status) = 1}) <= 1

ChainShape ==
    \A w \in 1..Len(wfs) :
        wfs[w].via # "createWorkflow" => ChainShaped(w)

RecoveredMidChain ==
    \E i \in Ids :
        /\ i + 2 \in Ids
        /\ steps[i + 2].workflowId = steps[i].workflowId
        /\ wfs[steps[i].workflowId].via # "createWorkflow"
        /\ steps[i].status = "COMPLETED"
        /\ steps[i + 1].status = "RUNNING"
        /\ steps[i + 2].status = "BLOCKED"
        /\ kills > 0
        /\ cur["e1"] = i + 1

\* C35 -- Workflow isolation: executing a step of workflow W (wait
\* scheduling, context patching, unblock-next and failure handling included)
\* changes only that step, W's context and W's immediate successor step;
\* every step and the context of every other workflow are left unchanged.
ExecutesStep(e) == pc[e] \in InTry /\ pc'[e] # pc[e] /\ pc'[e] # "down"

WorkflowIsolation ==
    [][\A e \in Engines :
          ExecutesStep(e) =>
              LET k == cur[e]
                  w == steps[k].workflowId
              IN  /\ \A i \in Ids :
                        steps'[i] # steps[i] =>
                            i = k \/ ImmediateSuccessor(k, i)
                  /\ \A v \in 1..Len(wfs) :
                        wfs'[v] # wfs[v] =>
                            /\ v = w
                            /\ wfs'[v] = [wfs[v] EXCEPT !.context = wfs'[v].context]]_vars

\* the part of it that is about other workflows
OtherWorkflowsUntouched ==
    [][\A e \in Engines :
          ExecutesStep(e) =>
              LET w == steps[cur[e]].workflowId
              IN  /\ \A i \in Ids :
                        steps[i].workflowId # w => steps'[i] = steps[i]
                  /\ \A v \in 1..Len(wfs) :
                        v # w => wfs'[v] = wfs[v]]_vars

\* C36 -- Persist-before-complete: a step's output and its context patch are
\* written to the store before the step is written COMPLETED, so in every
\* reachable state (states reached by a crash at any point included) a step
\* that is COMPLETED in the store has its handler output and its context
\* patch persisted already: the execution writes neither of them once the
\* step is COMPLETED.
OutputPersisted(i) ==
    outputOf(steps[i].name) # "undefined" => steps[i].output # "unset"

PatchPersisted(i) ==
    \A k \in DOMAIN patchFor(steps[i].name, NoContext) :
        k \in DOMAIN wfs[steps[i].workflowId].context

WritesAfterCompleted(e) ==
    /\ ExecutesStep(e)
    /\ steps[cur[e]].status = "COMPLETED"
    /\ \/ steps'[cur[e]].output # steps[cur[e]].output
       \/ wfs'[steps[cur[e]].workflowId].context
              # wfs[steps[cur[e]].workflowId].context

PersistBeforeComplete ==
    /\ [](\A i \in Ids :
             steps[i].status = "COMPLETED" =>
                 OutputPersisted(i) /\ PatchPersisted(i))
    /\ [][\A e \in Engines : ~WritesAfterCompleted(e)]_vars

====
